---- MODULE Spec2Model ----
\* A model of seisflows/solver/specfem2d.py, the SPECFEM2D solver interface.
\* Two parts share the module:
\*   - the solver invocation and the file transfer of a task: forward,
\*     adjoint, generate_data and the export operations, as statement lists
\*     that a task executes one statement at a time (SpecSolver, SpecExport);
\*   - the kernel post-processing: load, save, smooth and clip on the files
\*     path/tag, path/_nosmooth and path/_noclip (SpecGrad).
EXTENDS Integers, Sequences, FiniteSets, TLC

\* ------------------------------------------------------------- bounds
NTasks == 2
MaxNode == 2
MaxExit == 1
MaxCalls == 3
MaxRows == 2
MaxVal == 1
MaxCols == 6
MaxGradCalls == 2
MaxDigits == 12

Tasks == 1..NTasks
Nodes == 0..MaxNode
ExitCodes == 0..MaxExit

Absent == "absent"
None == "none"

\* The task that runs the solver operations in SpecSolver (workspaces are
\* disjoint directory trees, one per task).
SolverTasks == {1}

TaskNames == <<"EQ001", "EQ002", "EQ003", "EQ004">>
ModelNames == {"model_init", "model_true"}

\* Paths of a task's workspace (relative to self.getpath).
MODEL_FILE == "DATA/model_velocity.dat_input"
KERNEL_FILE == "OUTPUT_FILES/proc000000_rhop_alpha_beta_kernel.dat"
SU_FILES == "OUTPUT_FILES/U?_file_single.su"
MODEL_DATABASES == "OUTPUT_FILES/DATABASES_MPI"
SourceOf(name) == "DATA/SOURCE_" \o name
Directories == {"bin", "DATA", "traces/obs", "traces/syn", "traces/adj", MODEL_DATABASES}
WsPaths == {MODEL_FILE, KERNEL_FILE, SU_FILES, "residuals", "SEM", "DATA/SOURCE", "."}
               \cup Directories
               \cup {SourceOf(TaskNames[i]) : i \in 1..Len(TaskNames)}

XMESHFEM2D == "bin/xmeshfem2D"
XSPECFEM2D == "bin/xspecfem2D"
Bins == {XMESHFEM2D, XSPECFEM2D}

VARIABLES
    node,      \* node[t]: the worker identity system.getnode() gives task t
    todo,      \* todo[t]: the statements task t has still to execute
    op,        \* op[t]: the operation task t is executing, None between calls
    result,    \* result[t]: "running", or how the last call ended: "returned" | "raised"
    par,       \* par[t]: the flags of the task's DATA/Par_file
    ws,        \* ws[t]: the task's workspace, path -> content
    running,   \* running[t]: the binaries of the task now running
    exitc,     \* exitc[t][bin]: {} until bin has exited in this call, then {its exit code}
    nrun,      \* nrun[t][bin]: times bin was started in this call
    argv,      \* argv[t]: the argument lists of the processes started in this call
    out,       \* the shared output root: path -> content
    outdirs,   \* directories created under the shared output root
    writers,   \* writers[path]: the tasks that wrote path under the root
    ncalls     \* export operations called so far (SpecExport)

taskVars == <<node, todo, op, result, par, ws, running, exitc, nrun, argv>>
outVars == <<out, outdirs, writers>>
solverVars == <<taskVars, outVars, ncalls>>

VARIABLES
    gfs,       \* the files of the kernel directory: name -> file
    gpc,       \* the statement smooth or clip is at, "idle" between calls
    gop,       \* "smooth" or "clip": the last operation called
    garg,      \* its span or thresh
    parts,     \* the record smooth or clip has loaded
    gret,      \* the record the last call returned, NoParts when it returned none
    gres,      \* how the last call ended: "returned" | "raised"
    gfs0,      \* the files as they were when the call started
    touched,   \* the files the call has renamed or written so far
    gcalls     \* calls made so far

gradVars == <<gfs, gpc, gop, garg, parts, gret, gres, gfs0, touched, gcalls>>
vars == <<solverVars, gradVars>>

\* ------------------------------------------------------------ helpers
getname(t) == TaskNames[t]

DigitChars == <<"0", "1", "2", "3", "4", "5", "6", "7", "8", "9">>

RECURSIVE Decimal(_)
Decimal(n) ==
    IF n < 10 THEN DigitChars[n + 1]
    ELSE Decimal(n \div 10) \o DigitChars[(n % 10) + 1]

RECURSIVE PadLeft(_, _)
PadLeft(s, w) == IF Len(s) >= w THEN s ELSE PadLeft("0" \o s, w)

\* '%06d' % n, for n >= 0
Fmt06d(n) == PadLeft(Decimal(n), 6)

Upd(f, k, v) == [x \in DOMAIN f \cup {k} |-> IF x = k THEN v ELSE f[x]]

Instr(k, a, b) == [k |-> k, a |-> a, b |-> b]

\* the content of a source file: the event it describes and its f0 line
SourceText(name, f0) == "source of " \o name \o ", f0 = " \o f0
TemplateF0 == "f0 of the template"
F0s == {"5.0", "8.0"}

\* the files glob(PATH.SOLVER_FILES/*) finds: a source file for every event
SolverFiles == [p \in {SourceOf(TaskNames[i]) : i \in 1..Len(TaskNames)} |->
                  SourceText(CHOOSE n \in {TaskNames[i] : i \in 1..Len(TaskNames)} :
                                 SourceOf(n) = p, TemplateF0)]

FreshWs == [p \in WsPaths |-> Absent]
StagedWs(t) ==
    [p \in WsPaths |->
        CASE p = MODEL_FILE -> "model_init"
          [] p = KERNEL_FILE -> "kernel of " \o getname(t)
          [] p = "residuals" -> "residuals of " \o getname(t)
          [] p = "traces/obs" -> "obs of " \o getname(t)
          [] p = "traces/adj" -> "adj of " \o getname(t)
          [] p \in {"bin", "DATA", "."} -> "dir"
          [] p \in {"traces/syn", MODEL_DATABASES} -> "empty"
          [] p = "DATA/SOURCE" -> SourceText(getname(t), "5.0")
          [] p \in DOMAIN SolverFiles -> SolverFiles[p]
          [] OTHER -> Absent]

Link(target) == "-> " \o target

\* ------------------------------------------------- statement lists
\* mpirun: subprocess.call starts the script and blocks until it exits; the
\* exit code it returns is dropped.
\* the script is started and not waited for
mpirunNoWait(script) ==
    << Instr("call", script, None) >>

mpirun(script) ==
    << Instr("call", script, None), Instr("wait", script, None) >>

forward ==
    << Instr("setpar", "SIMULATION_TYPE", "1"),
       Instr("setpar", "SAVE_FORWARD", ".true.") >>
    \o mpirun(XMESHFEM2D)
    \o mpirun(XSPECFEM2D)

\* the link is re-created only after the mesher has run
adjointLinkAfterMesh ==
    << Instr("setpar", "SIMULATION_TYPE", "3"),
       Instr("setpar", "SAVE_FORWARD", ".false."),
       Instr("rm", "SEM", None) >>
    \o mpirun(XMESHFEM2D)
    \o << Instr("ln", "traces/adj", "SEM") >>
    \o mpirun(XSPECFEM2D)

adjoint ==
    << Instr("setpar", "SIMULATION_TYPE", "3"),
       Instr("setpar", "SAVE_FORWARD", ".false."),
       Instr("rm", "SEM", None),
       Instr("ln", "traces/adj", "SEM") >>
    \o mpirun(XMESHFEM2D)
    \o mpirun(XSPECFEM2D)

\* check, with the keys PAR and PATH hold: the base class checks first, then
\* NT, DT and F0 are required, and the two paths are looked up
stores(PAR, PATH) == [PAR |-> PAR, PATH |-> PATH]

\* F0 is not required
checkWithoutF0(PAR, PATH) ==
    << Instr("super_check", None, stores(PAR, PATH)),
       Instr("require", "NT", stores(PAR, PATH)),
       Instr("require", "DT", stores(PAR, PATH)),
       Instr("tolerate", "SPECFEM2D_BIN", stores(PAR, PATH)),
       Instr("tolerate", "SPECFEM2D_DATA", stores(PAR, PATH)) >>

check(PAR, PATH) ==
    << Instr("super_check", None, stores(PAR, PATH)),
       Instr("require", "NT", stores(PAR, PATH)),
       Instr("require", "DT", stores(PAR, PATH)),
       Instr("require", "F0", stores(PAR, PATH)),
       Instr("tolerate", "SPECFEM2D_BIN", stores(PAR, PATH)),
       Instr("tolerate", "SPECFEM2D_DATA", stores(PAR, PATH)) >>

\* the binaries are staged before bin/ is made
initializeStagingFirst(t, files, F0) ==
    << Instr("mkdir", None, "."),
       Instr("stage", "SOLVER_BINARIES", "bin"),
       Instr("mkdir", None, "bin"),
       Instr("mkdir", None, "DATA"),
       Instr("mkdir", None, "traces/obs"),
       Instr("mkdir", None, "traces/syn"),
       Instr("mkdir", None, "traces/adj"),
       Instr("mkdir", None, MODEL_DATABASES),
       Instr("stage", files, "DATA"),
       Instr("cp", SourceOf(getname(t)), "DATA/SOURCE"),
       Instr("setpar_source", F0, "DATA/SOURCE") >>

initialize_solver_directories(t, files, F0) ==
    << Instr("mkdir", None, "."),
       Instr("mkdir", None, "bin"),
       Instr("mkdir", None, "DATA"),
       Instr("mkdir", None, "traces/obs"),
       Instr("mkdir", None, "traces/syn"),
       Instr("mkdir", None, "traces/adj"),
       Instr("mkdir", None, MODEL_DATABASES),
       Instr("stage", "SOLVER_BINARIES", "bin"),
       Instr("stage", files, "DATA"),
       Instr("cp", SourceOf(getname(t)), "DATA/SOURCE"),
       Instr("setpar_source", F0, "DATA/SOURCE") >>

export_model(path) ==
    << Instr("export_model", MODEL_FILE, path) >>

\* the destination does not depend on the worker
export_kernelsFlat(t) ==
    << Instr("mkdir_gpfs", None, <<"kernels">>),
       Instr("cp_out", KERNEL_FILE, <<"kernels", Fmt06d(0)>>) >>

export_kernels(t) ==
    << Instr("mkdir_gpfs", None, <<"kernels">>),
       Instr("cp_out", KERNEL_FILE, <<"kernels", Fmt06d(node[t])>>) >>

\* the residuals are copied
export_residualsCopy(t) ==
    << Instr("mkdir_gpfs", None, <<"residuals">>),
       Instr("cp_out", "residuals", <<"residuals", getname(t)>>) >>

export_residuals(t) ==
    << Instr("mkdir_gpfs", None, <<"residuals">>),
       Instr("mv_out", "residuals", <<"residuals", getname(t)>>) >>

export_traces(t, prefix) ==
    << Instr("mkdir_gpfs", None, <<"traces">>),
       Instr("cp_out", prefix, <<"traces", getname(t)>>) >>

import_model(path) ==
    << Instr("cp_import", path \o <<"model">>, MODEL_FILE) >>

import_traces(t, path) ==
    << Instr("cp_import", path \o <<"traces", getname(t)>>, "traces/obs") >>

XSMOOTH_SEM == "bin/xsmooth_sem"

\* the binary is started a second time
combineTwice(path) ==
    << Instr("combine", XSMOOTH_SEM, path),
       Instr("combine", XSMOOTH_SEM, path) >>

combine(path) ==
    << Instr("combine", XSMOOTH_SEM, path) >>

generate_mesh(t, model_name) ==
    initialize_solver_directories(t, SolverFiles, "5.0")
    \o << Instr("cp_in", model_name, MODEL_FILE) >>
    \o export_model(<<model_name>>)

generate_data(t, model_name) ==
    generate_mesh(t, model_name)
    \o << Instr("setpar", "SIMULATION_TYPE", "1"),
          Instr("setpar", "SAVE_FORWARD", ".true.") >>
    \o mpirun(XMESHFEM2D)
    \o mpirun(XSPECFEM2D)
    \o << Instr("mv", SU_FILES, "traces/obs") >>
    \o export_traces(t, "traces/obs")

\* ------------------------------------------------------- initial states
InjectiveNodes == {f \in [Tasks -> Nodes] : \A s, t \in Tasks : s # t => f[s] # f[t]}

Flags == [SIMULATION_TYPE : {"1", "3"}, SAVE_FORWARD : {".true.", ".false."}]

CommonInit ==
    /\ todo = [t \in Tasks |-> <<>>]
    /\ op = [t \in Tasks |-> None]
    /\ result = [t \in Tasks |-> None]
    /\ running = [t \in Tasks |-> {}]
    /\ exitc = [t \in Tasks |-> [b \in Bins |-> {}]]
    /\ nrun = [t \in Tasks |-> [b \in Bins |-> 0]]
    /\ argv = [t \in Tasks |-> <<>>]
    /\ out = <<>>
    /\ outdirs = {}
    /\ writers = <<>>
    /\ ncalls = 0

\* ------------------------------------------------------------ calls
Idle(t) == Len(todo[t]) = 0

Call(t, name, stmts) ==
    /\ Idle(t)
    /\ todo' = [todo EXCEPT ![t] = stmts]
    /\ op' = [op EXCEPT ![t] = name]
    /\ result' = [result EXCEPT ![t] = "running"]
    /\ exitc' = [exitc EXCEPT ![t] = [b \in Bins |-> {}]]
    /\ nrun' = [nrun EXCEPT ![t] = [b \in Bins |-> 0]]
    /\ argv' = [argv EXCEPT ![t] = <<>>]
    /\ UNCHANGED <<node, par, ws, running, outVars>>
    /\ UNCHANGED gradVars

ParKeys == {"NT", "DT", "F0"}
PathKeys == {"SPECFEM2D_BIN", "SPECFEM2D_DATA"}

CallCheck(t) ==
    /\ \E PAR \in SUBSET ParKeys, PATH \in SUBSET PathKeys :
         Call(t, "check", check(PAR, PATH))
    /\ UNCHANGED ncalls

\* initialize_solver_directories is called once for a task, with the files
\* of PATH.SOLVER_FILES and the value of PAR.F0
CallInitialize(t) ==
    /\ result[t] = None
    /\ \E files \in {SolverFiles, <<>>}, F0 \in F0s :
         Call(t, "initialize_solver_directories",
              initialize_solver_directories(t, files, F0))
    /\ UNCHANGED ncalls

CallForward(t) ==
    /\ Call(t, "forward", forward)
    /\ UNCHANGED ncalls

CallAdjoint(t) ==
    /\ Call(t, "adjoint", adjoint)
    /\ UNCHANGED ncalls

CallGenerateData(t) ==
    /\ \E m \in ModelNames : Call(t, "generate_data", generate_data(t, m))
    /\ UNCHANGED ncalls

\* a driver calls an export operation of task t (at most MaxCalls in a run)
Counted ==
    /\ ncalls < MaxCalls
    /\ ncalls' = ncalls + 1

CallExportModel(t) ==
    /\ \E m \in ModelNames : Call(t, "export_model", export_model(<<m>>))
    /\ Counted

CallExportKernels(t) ==
    /\ Call(t, "export_kernels", export_kernels(t))
    /\ Counted

CallExportResiduals(t) ==
    /\ Call(t, "export_residuals", export_residuals(t))
    /\ Counted

CallExportTraces(t) ==
    /\ Call(t, "export_traces", export_traces(t, "traces/obs"))
    /\ Counted

\* export_model to a destination directly under the shared output root or
\* in a directory of it
ModelPaths == {<<"model_init">>, <<"models", "model_init">>}

CallExportModelTo(t) ==
    /\ \E path \in ModelPaths : Call(t, "export_model", export_model(path))
    /\ Counted

\* the imports and combine are called with the shared output root as path
CallImportModel(t) ==
    /\ Call(t, "import_model", import_model(<<>>))
    /\ Counted

CallImportTraces(t) ==
    /\ Call(t, "import_traces", import_traces(t, <<>>))
    /\ Counted

CallCombine(t) ==
    /\ Call(t, "combine", combine(<<"kernels">>))
    /\ Counted

\* -------------------------------------------------------- statements
At(t, k) == Len(todo[t]) > 0 /\ Head(todo[t]).k = k
Cur(t) == Head(todo[t])

\* the statement returns and the next one (or the caller) goes on
Advance(t) ==
    /\ todo' = [todo EXCEPT ![t] = Tail(@)]
    /\ result' = [result EXCEPT ![t] = IF Len(todo[t]) = 1 THEN "returned" ELSE "running"]
    /\ op' = [op EXCEPT ![t] = IF Len(todo[t]) = 1 THEN None ELSE @]
    /\ UNCHANGED gradVars

\* the statement raises: the operation is abandoned and the caller sees it
Raise(t) ==
    /\ todo' = [todo EXCEPT ![t] = <<>>]
    /\ result' = [result EXCEPT ![t] = "raised"]
    /\ op' = [op EXCEPT ![t] = None]
    /\ UNCHANGED gradVars

\* super(specfem2d, self).check(): the checks of the base class pass, or
\* one of them raises
SuperCheck(t) ==
    /\ At(t, "super_check")
    /\ Advance(t) \/ Raise(t)
    /\ UNCHANGED <<ncalls, node, argv, par, ws, running, exitc, nrun, outVars>>

\* if key not in PAR: raise Exception
Require(t) ==
    /\ At(t, "require")
    /\ IF Cur(t).a \in Cur(t).b.PAR THEN Advance(t) ELSE Raise(t)
    /\ UNCHANGED <<ncalls, node, argv, par, ws, running, exitc, nrun, outVars>>

\* if key not in PATH: pass
Tolerate(t) ==
    /\ At(t, "tolerate")
    /\ Advance(t)
    /\ UNCHANGED <<ncalls, node, argv, par, ws, running, exitc, nrun, outVars>>

\* setpar(key, val): patches the value of key in DATA/Par_file
SetPar(t) ==
    /\ At(t, "setpar")
    /\ par' = [par EXCEPT ![t] = [@ EXCEPT ![Cur(t).a] = Cur(t).b]]
    /\ Advance(t)
    /\ UNCHANGED <<ncalls, node, argv, ws, running, exitc, nrun, outVars>>

\* unix.rm(path): removes a file, a link or a directory tree; no error when absent
Rm(t) ==
    /\ At(t, "rm")
    /\ ws' = [ws EXCEPT ![t] = [@ EXCEPT ![Cur(t).a] = Absent]]
    /\ Advance(t)
    /\ UNCHANGED <<ncalls, node, argv, par, running, exitc, nrun, outVars>>

\* unix.ln(src, dst): os.symlink, which raises when dst exists
Ln(t) ==
    /\ At(t, "ln")
    /\ IF ws[t][Cur(t).b] = Absent
       THEN /\ ws' = [ws EXCEPT ![t] = [@ EXCEPT ![Cur(t).b] = Link(Cur(t).a)]]
            /\ Advance(t)
       ELSE /\ Raise(t)
            /\ UNCHANGED ws
    /\ UNCHANGED <<ncalls, node, argv, par, running, exitc, nrun, outVars>>

\* subprocess.call, first half: the child process is started
MpirunCall(t) ==
    /\ At(t, "call")
    /\ running' = [running EXCEPT ![t] = @ \cup {Cur(t).a}]
    /\ nrun' = [nrun EXCEPT ![t] = [@ EXCEPT ![Cur(t).a] = @ + 1]]
    /\ argv' = [argv EXCEPT ![t] = Append(@, <<Cur(t).a>>)]
    /\ Advance(t)
    /\ UNCHANGED <<ncalls, node, par, ws, exitc, outVars>>

\* what a binary that exited with code c leaves in the workspace
BinaryOutput(t, script, c) ==
    IF script = XSPECFEM2D /\ c = 0
    THEN IF par[t].SIMULATION_TYPE = "1"
         THEN [ws[t] EXCEPT ![SU_FILES] = "su of " \o getname(t)]
         ELSE [ws[t] EXCEPT ![KERNEL_FILE] = "kernel of " \o getname(t)]
    ELSE ws[t]

\* subprocess.call, second half: the child exits with some code, the call
\* returns it and mpirun drops it
MpirunWait(t) ==
    /\ At(t, "wait")
    /\ Cur(t).a \in running[t]
    /\ \E c \in ExitCodes :
        /\ exitc' = [exitc EXCEPT ![t] = [@ EXCEPT ![Cur(t).a] = {c}]]
        /\ ws' = [ws EXCEPT ![t] = BinaryOutput(t, Cur(t).a, c)]
    /\ running' = [running EXCEPT ![t] = @ \ {Cur(t).a}]
    /\ Advance(t)
    /\ UNCHANGED <<ncalls, node, argv, par, nrun, outVars>>

\* unix.mkdir(dir): makes the directory when it does not exist
Mkdir(t) ==
    /\ At(t, "mkdir")
    /\ ws' = [ws EXCEPT ![t] = [@ EXCEPT ![Cur(t).b] = IF @ = Absent THEN "empty" ELSE @]]
    /\ Advance(t)
    /\ UNCHANGED <<ncalls, node, argv, par, running, exitc, nrun, outVars>>

\* unix.cp(glob(dir/*), dst): the files are copied into the directory dst,
\* which has to exist
Stage(t) ==
    /\ At(t, "stage")
    /\ IF ws[t][Cur(t).b] = Absent
       THEN /\ Raise(t)
            /\ UNCHANGED ws
       ELSE /\ ws' = [ws EXCEPT ![t] =
                       [p \in WsPaths |->
                           IF p = Cur(t).b THEN "dir"
                           ELSE IF Cur(t).b = "DATA" /\ p \in DOMAIN Cur(t).a
                           THEN Cur(t).a[p]
                           ELSE ws[t][p]]]
            /\ Advance(t)
    /\ UNCHANGED <<ncalls, node, argv, par, running, exitc, nrun, outVars>>

\* unix.cp(src, dst) in the workspace; nothing is copied when src is no file
CpWs(t) ==
    /\ At(t, "cp")
    /\ ws' = [ws EXCEPT ![t] =
                IF ws[t][Cur(t).a] = Absent THEN @
                ELSE [@ EXCEPT ![Cur(t).b] = ws[t][Cur(t).a]]]
    /\ Advance(t)
    /\ UNCHANGED <<ncalls, node, argv, par, running, exitc, nrun, outVars>>

\* the text with the value of its f0 line replaced
SetF0(text, F0) ==
    SourceText(CHOOSE n \in {TaskNames[i] : i \in 1..Len(TaskNames)} :
                   \E f \in F0s \cup {TemplateF0} : text = SourceText(n, f), F0)

\* setpar('f0', PAR.F0, 'DATA/SOURCE'): the file has to exist
SetParSource(t) ==
    /\ At(t, "setpar_source")
    /\ IF ws[t][Cur(t).b] = Absent
       THEN /\ Raise(t)
            /\ UNCHANGED ws
       ELSE /\ ws' = [ws EXCEPT ![t] = [@ EXCEPT ![Cur(t).b] = SetF0(@, Cur(t).a)]]
            /\ Advance(t)
    /\ UNCHANGED <<ncalls, node, argv, par, running, exitc, nrun, outVars>>

\* unix.cp(model_path, 'DATA/model_velocity.dat_input')
CpIn(t) ==
    /\ At(t, "cp_in")
    /\ ws' = [ws EXCEPT ![t] = [@ EXCEPT ![Cur(t).b] = Cur(t).a]]
    /\ Advance(t)
    /\ UNCHANGED <<ncalls, node, argv, par, running, exitc, nrun, outVars>>

\* unix.mv(self.data_wildcard, 'traces/obs'): the glob may be empty
MvSu(t) ==
    /\ At(t, "mv")
    /\ ws' = [ws EXCEPT ![t] =
                IF ws[t][Cur(t).a] = Absent THEN @
                ELSE [@ EXCEPT ![Cur(t).b] = ws[t][Cur(t).a], ![Cur(t).a] = Absent]]
    /\ Advance(t)
    /\ UNCHANGED <<ncalls, node, argv, par, running, exitc, nrun, outVars>>

\* a write of content c to dst under the shared output root by task t
WriteOut(t, dst, c) ==
    /\ out' = Upd(out, dst, c)
    /\ writers' = Upd(writers, dst,
                      (IF dst \in DOMAIN writers THEN writers[dst] ELSE {}) \cup {t})

\* the directory dst is to be created in exists: the shared output root
\* does, and so do the directories made under it
ParentExists(dst) == SubSeq(dst, 1, Len(dst) - 1) \in outdirs \cup {<<>>}

\* the gate of export_model, and a gate that lets every worker through
AnyNode(t) == TRUE
IsCoordinator(t) == node[t] = 0

\* export_model: unix.cp(src, dst) on the coordinator only; shutil.copy
\* raises when the directory of dst does not exist
ExportModelCp(t) ==
    /\ At(t, "export_model")
    /\ IF IsCoordinator(t) /\ ws[t][Cur(t).a] # Absent
       THEN IF ParentExists(Cur(t).b)
            THEN /\ WriteOut(t, Cur(t).b, ws[t][Cur(t).a])
                 /\ Advance(t)
            ELSE /\ Raise(t)
                 /\ UNCHANGED <<out, writers>>
       ELSE /\ UNCHANGED <<out, writers>>
            /\ Advance(t)
    /\ UNCHANGED <<ncalls, node, argv, par, ws, running, exitc, nrun, outdirs>>

\* unix.mkdir_gpfs(join(path, dir))
MkdirGpfs(t) ==
    /\ At(t, "mkdir_gpfs")
    /\ outdirs' = outdirs \cup {Cur(t).b}
    /\ Advance(t)
    /\ UNCHANGED <<ncalls, node, argv, par, ws, running, exitc, nrun, out, writers>>

\* unix.cp(src, dst) into the shared output root; nothing is copied when
\* src is neither a file nor a directory
CpOut(t) ==
    /\ At(t, "cp_out")
    /\ IF ws[t][Cur(t).a] # Absent
       THEN IF ParentExists(Cur(t).b)
            THEN /\ WriteOut(t, Cur(t).b, ws[t][Cur(t).a])
                 /\ Advance(t)
            ELSE /\ Raise(t)
                 /\ UNCHANGED <<out, writers>>
       ELSE /\ UNCHANGED <<out, writers>>
            /\ Advance(t)
    /\ UNCHANGED <<ncalls, node, argv, par, ws, running, exitc, nrun, outdirs>>

\* unix.mv(src, dst) into the shared output root: shutil.move raises when
\* src does not exist
MvOut(t) ==
    /\ At(t, "mv_out")
    /\ IF ws[t][Cur(t).a] # Absent /\ ParentExists(Cur(t).b)
       THEN /\ WriteOut(t, Cur(t).b, ws[t][Cur(t).a])
            /\ ws' = [ws EXCEPT ![t] = [@ EXCEPT ![Cur(t).a] = Absent]]
            /\ Advance(t)
       ELSE /\ Raise(t)
            /\ UNCHANGED <<ws, out, writers>>
    /\ UNCHANGED <<ncalls, node, argv, par, running, exitc, nrun, outdirs>>

\* unix.cp(src, dst) from the shared root into the workspace: src is a file
\* (import_model) or the list of the files glob finds (import_traces);
\* nothing is copied when there is none
CpImport(t) ==
    /\ At(t, "cp_import")
    /\ ws' = [ws EXCEPT ![t] =
                IF Cur(t).a \in DOMAIN out THEN [@ EXCEPT ![Cur(t).b] = out[Cur(t).a]]
                ELSE @]
    /\ Advance(t)
    /\ UNCHANGED <<ncalls, node, argv, par, running, exitc, nrun, outVars>>

\* unix.ls(path): the entries of the directory path under the shared root
ls(path) == {p \in DOMAIN out : Len(p) = Len(path) + 1 /\ SubSeq(p, 1, Len(path)) = path}

\* subprocess.call([getpath/bin/xsmooth_sem, str(len(unix.ls(path))), path]):
\* os.listdir raises when path is not a directory
CombineCall(t) ==
    /\ At(t, "combine")
    /\ IF Cur(t).b \in outdirs
       THEN /\ argv' = [argv EXCEPT ![t] =
                   Append(@, <<getname(t) \o "/" \o Cur(t).a,
                               Decimal(Cardinality(ls(Cur(t).b))), Cur(t).b>>)]
            /\ Advance(t)
       ELSE /\ Raise(t)
            /\ UNCHANGED argv
    /\ UNCHANGED <<ncalls, node, par, ws, running, exitc, nrun, outVars>>

\* ---------------------------------------------------- numbers, text
\* A number is a sign, its significant digits d1 d2 .. dn (d1 and dn are not
\* 0) and an exponent, and stands for d1.d2..dn * 10^exp; zero has no digit.
\* A float of up to 15 significant digits is the decimal it was read from.
Num(neg, sig, exp) == [neg |-> neg, sig |-> sig, exp |-> exp]
Zero == Num(FALSE, <<>>, 0)

\* A cell of a text file, in scientific notation: m1.m2..mk e exp
Text(neg, mant, exp) == [neg |-> neg, mant |-> mant, exp |-> exp]

RECURSIVE StripZeros(_)
StripZeros(d) ==
    IF Len(d) > 0 /\ d[Len(d)] = 0 THEN StripZeros(SubSeq(d, 1, Len(d) - 1)) ELSE d

\* float(text), as np.loadtxt converts a cell
RECURSIVE float(_)
float(t) ==
    IF StripZeros(t.mant) = <<>> THEN Zero
    ELSE IF t.mant[1] = 0 THEN float(Text(t.neg, Tail(t.mant), t.exp - 1))
    ELSE Num(t.neg, StripZeros(t.mant), t.exp)

\* '%16.10e': one digit before the point and Precision digits after it
Precision == 10

\* the digits d, taken as an integer, plus one
RECURSIVE Incr(_)
Incr(d) ==
    IF d = <<>> THEN <<1>>
    ELSE IF d[Len(d)] = 9 THEN Append(Incr(SubSeq(d, 1, Len(d) - 1)), 0)
    ELSE [d EXCEPT ![Len(d)] = @ + 1]

\* round to nearest, a tie to the even digit
RoundsUp(kept, rest) ==
    /\ rest # <<>>
    /\ \/ rest[1] > 5
       \/ /\ rest[1] = 5
          /\ \/ \E i \in 2..Len(rest) : rest[i] # 0
             \/ kept[Len(kept)] % 2 = 1

\* '%16.10e' % x
Fmt16_10e(x) ==
    LET n == Precision + 1
        len == IF Len(x.sig) > n THEN Len(x.sig) ELSE n
        padded == [i \in 1..len |-> IF i <= Len(x.sig) THEN x.sig[i] ELSE 0]
        kept == SubSeq(padded, 1, n)
        rest == SubSeq(padded, n + 1, len)
        up == Incr(kept)
    IN  IF ~RoundsUp(kept, rest) THEN Text(x.neg, kept, x.exp)
        ELSE IF Len(up) > n THEN Text(x.neg, SubSeq(up, 1, n), x.exp + 1)
        ELSE Text(x.neg, up, x.exp)

\* The numbers of the grid are integers: the arithmetic on them is that of
\* the integers.
RECURSIVE Digits(_)
Digits(n) == IF n < 10 THEN <<n>> ELSE Append(Digits(n \div 10), n % 10)

RECURSIVE Horner(_)
Horner(d) ==
    IF d = <<>> THEN 0 ELSE 10 * Horner(SubSeq(d, 1, Len(d) - 1)) + d[Len(d)]

FromInt(n) ==
    IF n = 0 THEN Zero
    ELSE LET d == Digits(IF n < 0 THEN 0 - n ELSE n)
         IN  Num(n < 0, StripZeros(d), Len(d) - 1)

ToInt(x) ==
    LET m == Horner(x.sig) * 10 ^ (x.exp + 1 - Len(x.sig))
    IN  IF x.neg THEN 0 - m ELSE m

\* ------------------------------------------- model and kernel files
\* A file is a table: a sequence of rows, each a sequence of ncol cells of
\* text.
NoFile == [exists |-> FALSE, rows |-> <<>>]
File(rows) == [exists |-> TRUE, rows |-> rows]

\* a call that returns no record returns NoParts
NoParts == <<>>

Keys == <<"x", "z", "rho", "vp", "vs">>

\* parameters = ['vs']: the fields smooth and clip work on
parameters == <<"vs">>

TAG == "gradient"
NOSMOOTH == "_nosmooth"
NOCLIP == "_noclip"
MODEL_INIT == "MODEL_INIT"
GradFiles == {TAG, NOSMOOTH, NOCLIP, MODEL_INIT}

\* The values of a field are multiples of Unit, so that the products thresh*v
\* of a run are on the grid: a threshold halves at most once per call.
Unit == 2 ^ (MaxGradCalls + 1)
Vals == {0 - Unit * MaxVal, 0, Unit * MaxVal}

Min2(a, b) == IF a <= b THEN a ELSE b
Max2(a, b) == IF a >= b THEN a ELSE b

RECURSIVE SeqMin(_)
SeqMin(q) == IF Len(q) = 1 THEN q[1] ELSE Min2(q[1], SeqMin(Tail(q)))

RECURSIVE SeqMax(_)
SeqMax(q) == IF Len(q) = 1 THEN q[1] ELSE Max2(q[1], SeqMax(Tail(q)))

Failure(e) == [ok |-> FALSE, err |-> e]
Success(v) == [ok |-> TRUE, val |-> v]

\* np.loadtxt(filename) followed by M.shape[0], M.shape[1]: a missing file
\* cannot be opened, and a table of one row is read as a 1-D array, which
\* has no second dimension
loadtxt(file) ==
    IF ~file.exists THEN Failure("IOError")
    ELSE IF Len(file.rows) = 1 THEN Failure("IndexError")
    ELSE Success([r \in 1..Len(file.rows) |->
                    [c \in 1..Len(file.rows[r]) |-> float(file.rows[r][c])]])

Column(M, c) == [r \in 1..Len(M) |-> M[r][c]]

\* the offset of the first data column
ColumnOffset(ncol) ==
    IF ncol = 5 THEN Success(0)
    ELSE IF ncol = 6 THEN Success(1)
    ELSE Failure("Bad SPECFEM2D model or kernel.")

load(file) ==
    LET M == loadtxt(file) IN
    IF ~M.ok THEN M
    ELSE LET ioff == ColumnOffset(Len(M.val[1])) IN
         IF ~ioff.ok THEN ioff
         ELSE Success([i \in 1..Len(Keys) |-> Column(M.val, ioff.val + i)])

\* A record maps the i-th key of Keys to its column, and a key it lacks to
\* an empty column.
HasKey(model, i) == Len(model[i]) > 0

KeyIndex(key) == CHOOSE i \in 1..Len(Keys) : Keys[i] = key

loadbyproc(file, key) ==
    LET M == loadtxt(file) IN
    IF ~M.ok THEN M
    ELSE LET ioff == ColumnOffset(Len(M.val[1])) IN
         IF ~ioff.ok THEN ioff
         ELSE Success(Column(M.val, ioff.val + KeyIndex(key)))

\* a save that takes every type but 'kernel' for 'model'
SaveLayoutLenient(type) ==
    IF type = "kernel" THEN Success([ncol |-> 5, ioff |-> 0])
    ELSE Success([ncol |-> 6, ioff |-> 1])

\* the layout save gives each type
SaveLayout(type) ==
    IF type = "model" THEN Success([ncol |-> 6, ioff |-> 1])
    ELSE IF type = "kernel" THEN Success([ncol |-> 5, ioff |-> 0])
    ELSE Failure("ValueError")

\* save, up to np.savetxt: the array M it writes, or the error it raises.
\* A column of the wrong length cannot be assigned to M[:, c].
save(model, type, reference) ==
    LET layout == SaveLayout(type) IN
    IF ~layout.ok THEN layout
    ELSE
    LET nrow == Len(model[CHOOSE i \in 1..Len(Keys) : HasKey(model, i)])
        col(i) == IF HasKey(model, i) THEN Success(model[i])
                  ELSE loadbyproc(reference, Keys[i])
        bad == {i \in 1..Len(Keys) : ~col(i).ok}
        short == {i \in 1..Len(Keys) \ bad :
                     Len(col(i).val) # nrow /\ Len(col(i).val) # 1}
    IN  IF bad # {} THEN col(CHOOSE i \in bad : \A j \in bad : i <= j)
        ELSE IF short # {} THEN Failure("ValueError")
        ELSE Success([r \in 1..nrow |->
                        [c \in 1..layout.val.ncol |->
                            IF c <= layout.val.ioff THEN Zero
                            ELSE LET v == col(c - layout.val.ioff).val IN
                                 IF Len(v) = 1 THEN v[1] ELSE v[r]]])

\* np.savetxt(filename, M, '%16.10e'): the rows of the file
savetxt(M) == [r \in 1..Len(M) |-> [c \in 1..Len(M[r]) |-> Fmt16_10e(M[r][c])]]

\* a column of grid numbers as integers, and back
Ints(v) == [r \in 1..Len(v) |-> ToInt(v[r])]
Nums(w) == [r \in 1..Len(w) |-> FromInt(w[r])]

\* thresh is the ratio num/den, and Times(thresh, v) the product thresh*v
Threshes ==
    {[num |-> 0 - 1, den |-> 1], [num |-> 0, den |-> 1], [num |-> 1, den |-> 2],
     [num |-> 1, den |-> 1], [num |-> 3, den |-> 2]}
Times(thresh, v) == (thresh.num * v) \div thresh.den
\* thresh >= 1., and thresh > 1.
MoreThanOne(thresh) == thresh.num > thresh.den
AtLeastOne(thresh) == thresh.num >= thresh.den

\* np.clip(a, lo, hi) is minimum(maximum(a, lo), hi)
np_clip(a, lo, hi) == [r \in 1..Len(a) |-> Min2(Max2(a[r], lo), hi)]

Spans == {0, 1}

\* ------------------------------------------------------------ smooth
GradBegin ==
    /\ gpc = "idle"
    /\ gcalls < MaxGradCalls
    /\ gcalls' = gcalls + 1
    /\ gfs0' = gfs
    /\ touched' = {}

GradRaise ==
    /\ gpc' = "idle"
    /\ gres' = "raised"
    /\ gret' = NoParts
    /\ parts' = NoParts

\* not span, and a test that never holds
NeverZero(span) == FALSE
IsZero(span) == span = 0

\* parts = self.load(path/tag); if not span: return parts
SmoothLoad(span) ==
    /\ GradBegin
    /\ gop' = "smooth"
    /\ garg' = span
    /\ LET loaded == load(gfs[TAG]) IN
       IF ~loaded.ok THEN GradRaise
       ELSE IF IsZero(span)
       THEN /\ gpc' = "idle"
            /\ gres' = "returned"
            /\ gret' = loaded.val
            /\ parts' = NoParts
       ELSE /\ gpc' = "smooth_filter"
            /\ gres' = "running"
            /\ gret' = NoParts
            /\ parts' = loaded.val
    /\ UNCHANGED <<gfs, solverVars>>

\* meshsmooth(x, z, v, span, nx, nz): the field v itself, or a flat field at
\* one of the extrema of v (a weighted mean lies between them)
meshsmooth(v) ==
    {v} \cup {[r \in 1..Len(v) |-> FromInt(c)] : c \in {SeqMin(Ints(v)), SeqMax(Ints(v))}}

\* for key in self.parameters: parts[key] = [meshsmooth(...)]
SmoothFilter ==
    /\ gpc = "smooth_filter"
    /\ \E smoothed \in meshsmooth(parts[KeyIndex("vs")]) :
         parts' = [i \in 1..Len(Keys) |->
                     IF \E k \in 1..Len(parameters) : parameters[k] = Keys[i]
                     THEN smoothed ELSE parts[i]]
    /\ gpc' = "smooth_mv"
    /\ UNCHANGED <<gfs, gop, garg, gret, gres, gfs0, touched, gcalls, solverVars>>

\* the statement is left out
GradSkip(src, dst, next) ==
    /\ gpc' = next
    /\ UNCHANGED <<gfs, touched, gop, garg, parts, gret, gres, gfs0, gcalls, solverVars>>

\* unix.mv(src, dst) in the kernel directory
GradMv(src, dst, next) ==
    /\ gfs' = [gfs EXCEPT ![dst] = gfs[src], ![src] = NoFile]
    /\ touched' = touched \cup {src, dst}
    /\ gpc' = next
    /\ UNCHANGED <<gop, garg, parts, gret, gres, gfs0, gcalls, solverVars>>

\* self.save(path/tag, parts): the type is left to its default, 'model'
GradSave(type) ==
    /\ LET M == save(parts, type, gfs[MODEL_INIT]) IN
       IF M.ok
       THEN /\ gfs' = [gfs EXCEPT ![TAG] = File(savetxt(M.val))]
            /\ touched' = touched \cup {TAG}
            /\ gres' = "returned"
       ELSE /\ gres' = "raised"
            /\ UNCHANGED <<gfs, touched>>
    /\ gpc' = "idle"
    /\ gret' = NoParts
    /\ parts' = NoParts
    /\ UNCHANGED <<gop, garg, gfs0, gcalls, solverVars>>

SmoothMv ==
    /\ gpc = "smooth_mv"
    /\ GradMv(TAG, NOSMOOTH, "smooth_save")

SmoothSave ==
    /\ gpc = "smooth_save"
    /\ GradSave("model")

\* -------------------------------------------------------------- clip
\* parts = self.load(path/tag); if thresh >= 1.: return parts
ClipLoad(thresh) ==
    /\ GradBegin
    /\ gop' = "clip"
    /\ garg' = thresh
    /\ LET loaded == load(gfs[TAG]) IN
       IF ~loaded.ok THEN GradRaise
       ELSE IF AtLeastOne(thresh)
       THEN /\ gpc' = "idle"
            /\ gres' = "returned"
            /\ gret' = loaded.val
            /\ parts' = NoParts
       ELSE /\ gpc' = "clip_clamp"
            /\ gres' = "running"
            /\ gret' = NoParts
            /\ parts' = loaded.val
    /\ UNCHANGED <<gfs, solverVars>>

\* for key in self.parameters: np.clip(parts[key][0], thresh*minval,
\* thresh*maxval, out=parts[key][0])
ClipClamp ==
    /\ gpc = "clip_clamp"
    /\ parts' = [i \in 1..Len(Keys) |->
                   IF \E k \in 1..Len(parameters) : parameters[k] = Keys[i]
                   THEN Nums(np_clip(Ints(parts[i]),
                                     Times(garg, SeqMin(Ints(parts[i]))),
                                     Times(garg, SeqMax(Ints(parts[i])))))
                   ELSE parts[i]]
    /\ gpc' = "clip_mv"
    /\ UNCHANGED <<gfs, gop, garg, gret, gres, gfs0, touched, gcalls, solverVars>>

ClipMv ==
    /\ gpc = "clip_mv"
    /\ GradMv(TAG, NOCLIP, "clip_save")

ClipSave ==
    /\ gpc = "clip_save"
    /\ GradSave("model")

\* ----------------------------------------------------- initial files
\* Row r of a table of ncol columns whose last column is v: the other cells
\* differ from column to column and from row to row. The cells are written
\* as the solver tools write them, in the format of save.
InitRow(r, ncol, v) ==
    [c \in 1..ncol |-> Fmt16_10e(FromInt(IF c = ncol THEN v ELSE 10 * c + r))]

InitTables ==
    {[r \in 1..nrow |-> InitRow(r, ncol, vs[r])] :
        <<nrow, ncol, vs>> \in
            {w \in (1..MaxRows) \X ((MaxCols - 2)..MaxCols) \X UNION {[1..n -> Vals] : n \in 1..MaxRows} :
                DOMAIN w[3] = 1..w[1]}}

ReferenceTable ==
    [r \in 1..MaxRows |-> [c \in 1..6 |-> Fmt16_10e(FromInt(100 + 10 * c + r))]]

GradIdle ==
    /\ gpc = "idle"
    /\ gop = None
    /\ garg = None
    /\ parts = NoParts
    /\ gret = NoParts
    /\ gres = None
    /\ touched = {}
    /\ gcalls = 0

GradInit ==
    /\ GradIdle
    /\ \E table \in InitTables, old \in {{}, {NOSMOOTH, NOCLIP}} :
         gfs = [f \in GradFiles |->
                  IF f = TAG THEN File(table)
                  ELSE IF f = MODEL_INIT THEN File(ReferenceTable)
                  ELSE IF f \in old THEN File(ReferenceTable)
                  ELSE NoFile]
    /\ gfs0 = gfs

GradNext ==
    \/ \E span \in Spans : SmoothLoad(span)
    \/ SmoothFilter
    \/ SmoothMv
    \/ SmoothSave
    \/ \E thresh \in Threshes : ClipLoad(thresh)
    \/ ClipClamp
    \/ ClipMv
    \/ ClipSave


\* ----------------------------------------------- load, save, load
\* The cells a table may hold: few digits, as many as the format keeps, and
\* more than it keeps (rounded down, and rounded up with a carry).
CellTexts ==
    {Text(FALSE, <<2, 5>>, 0),
     Text(TRUE, [i \in 1..(Precision + 1) |-> (i % 9) + 1], 3),
     Text(FALSE, [i \in 1..MaxDigits |-> (i % 9) + 1], 0),
     Text(FALSE, [i \in 1..MaxDigits |-> 9], 1)}

CodecRow(r, ncol, t) ==
    [c \in 1..ncol |-> IF c = ncol THEN t ELSE Fmt16_10e(FromInt(10 * c + r))]

CodecTables ==
    {[r \in 1..nrow |-> CodecRow(r, ncol, vs[r])] :
        <<nrow, ncol, vs>> \in
            {w \in (1..MaxRows) \X ((MaxCols - 2)..MaxCols)
                       \X UNION {[1..n -> CellTexts] : n \in 1..MaxRows} :
                DOMAIN w[3] = 1..w[1]}}

\* reference files of PATH.MODEL_INIT: 5 or 6 columns, any number of rows
CodecReferences ==
    {[r \in 1..nrow |-> [c \in 1..ncol |-> Fmt16_10e(FromInt(100 + 10 * c + r))]] :
        <<nrow, ncol>> \in (1..MaxRows) \X {5, 6}}

SaveTypes == {"model", "kernel", "image"}
Optional == {"rho", "vp", "vs"}

\* the record without the keys in lacking
Without(model, lacking) ==
    [i \in 1..Len(Keys) |-> IF Keys[i] \in lacking THEN <<>> ELSE model[i]]

\* the files save reads: PATH.MODEL_INIT, for a key the record lacks
SaveReads(model, type) ==
    IF SaveLayout(type).ok /\ \E i \in 1..Len(Keys) : ~HasKey(model, i)
    THEN {MODEL_INIT} ELSE {}

CodecEnd(name, arg, res) ==
    /\ gop' = name
    /\ garg' = arg
    /\ gres' = res
    /\ gcalls' = gcalls + 1
    /\ UNCHANGED <<gfs0, solverVars>>

\* model = self.load(filename)
CodecLoad ==
    /\ gpc = "idle"
    /\ LET loaded == load(gfs[TAG]) IN
       IF loaded.ok
       THEN /\ parts' = loaded.val
            /\ gret' = loaded.val
            /\ gpc' = "loaded"
            /\ CodecEnd("load", None, "returned")
       ELSE /\ parts' = NoParts
            /\ gret' = NoParts
            /\ gpc' = "end"
            /\ CodecEnd("load", None, loaded.err)
    /\ UNCHANGED <<gfs, touched>>

\* loadbyproc(filename, key)
CodecLoadByProc(key) ==
    /\ gpc = "idle"
    /\ LET column == loadbyproc(gfs[TAG], key) IN
       IF column.ok
       THEN /\ gret' = column.val
            /\ CodecEnd("loadbyproc", key, "returned")
       ELSE /\ gret' = NoParts
            /\ CodecEnd("loadbyproc", key, column.err)
    /\ gpc' = "end"
    /\ UNCHANGED <<gfs, parts, touched>>

\* self.save(filename, model, type)
CodecSaveAs(model, type, lacking) ==
    /\ LET M == save(Without(model, lacking), type, gfs[MODEL_INIT]) IN
       IF M.ok
       THEN /\ gfs' = [gfs EXCEPT ![TAG] = File(savetxt(M.val))]
            /\ touched' = SaveReads(Without(model, lacking), type) \cup {TAG}
            /\ gpc' = "saved"
            /\ CodecEnd("save", [type |-> type, lacking |-> lacking], "returned")
       ELSE /\ touched' = SaveReads(Without(model, lacking), type)
            /\ gpc' = "end"
            /\ CodecEnd("save", [type |-> type, lacking |-> lacking], M.err)
            /\ UNCHANGED gfs
    /\ parts' = model
    /\ gret' = NoParts

\* save of the record that load returned
CodecSave(type, lacking) ==
    /\ gpc = "loaded"
    /\ CodecSaveAs(parts, type, lacking)

\* the record of a table of 5 or 6 columns, as its caller computed it
Computed(rows) ==
    [i \in 1..Len(Keys) |->
        [r \in 1..Len(rows) |-> float(rows[r][Len(rows[1]) - Len(Keys) + i])]]

\* save of a record that was not loaded from a file
CodecSaveComputed(type, lacking) ==
    /\ gpc = "idle"
    /\ Len(gfs[TAG].rows[1]) \in {5, 6}
    /\ CodecSaveAs(Computed(gfs[TAG].rows), type, lacking)

\* self.load(filename) of the file that save wrote
CodecReload ==
    /\ gpc = "saved"
    /\ LET loaded == load(gfs[TAG]) IN
       IF loaded.ok
       THEN /\ gret' = loaded.val
            /\ CodecEnd("reload", garg, "returned")
       ELSE /\ gret' = NoParts
            /\ CodecEnd("reload", garg, loaded.err)
    /\ gpc' = "end"
    /\ UNCHANGED <<gfs, parts, touched>>

CodecInit ==
    /\ GradIdle
    /\ \E table \in CodecTables, reference \in CodecReferences :
         gfs = [f \in GradFiles |->
                  IF f = TAG THEN File(table)
                  ELSE IF f = MODEL_INIT THEN File(reference)
                  ELSE NoFile]
    /\ gfs0 = gfs

CodecNext ==
    \/ CodecLoad
    \/ \E key \in {Keys[i] : i \in 1..Len(Keys)} : CodecLoadByProc(key)
    \/ \E type \in SaveTypes, lacking \in SUBSET Optional : CodecSave(type, lacking)
    \/ \E type \in SaveTypes, lacking \in SUBSET Optional : CodecSaveComputed(type, lacking)
    \/ CodecReload

\* --------------------------------------------------- specifications
DefaultFlags == [SIMULATION_TYPE |-> "1", SAVE_FORWARD |-> ".false."]

\* no kernel post-processing is under way
GradQuiet ==
    /\ GradIdle
    /\ gfs = [f \in GradFiles |-> NoFile]
    /\ gfs0 = gfs

\* One task drives the solver in its own workspace, which is fresh, or staged
\* by an earlier run (with or without an adjoint-source link left behind).
SolverInit ==
    /\ CommonInit
    /\ GradQuiet
    /\ node \in InjectiveNodes
    /\ \E f \in Flags :
         par = [t \in Tasks |-> IF t \in SolverTasks THEN f ELSE DefaultFlags]
    /\ \E staged \in BOOLEAN, sem \in {Absent, Link("old/adj")} :
         ws = [t \in Tasks |->
                 IF t \in SolverTasks /\ staged
                 THEN [StagedWs(t) EXCEPT !["SEM"] = sem]
                 ELSE FreshWs]

SolverNext ==
    \E t \in SolverTasks :
        \/ CallForward(t)
        \/ CallAdjoint(t)
        \/ CallGenerateData(t)
        \/ CallCheck(t)
        \/ SuperCheck(t)
        \/ Require(t)
        \/ Tolerate(t)
        \/ SetPar(t)
        \/ Rm(t)
        \/ Ln(t)
        \/ MpirunCall(t)
        \/ MpirunWait(t)
        \/ Mkdir(t)
        \/ Stage(t)
        \/ CpWs(t)
        \/ SetParSource(t)
        \/ CpIn(t)
        \/ MvSu(t)
        \/ ExportModelCp(t)
        \/ MkdirGpfs(t)
        \/ CpOut(t)

SpecSolver == SolverInit /\ [][SolverNext]_vars

\* Every task exports to and imports from the shared root, which is empty
\* or holds the model to import. The workers have the identities 0, 1, ..
\* in the order of the tasks, or identities from MaxNode downwards.
TransferNodes == {[t \in Tasks |-> t - 1], [t \in Tasks |-> MaxNode + 1 - t]}

\* Every task initializes its workspace, on a root that holds nothing.
InitializeInit ==
    /\ CommonInit
    /\ GradQuiet
    /\ node \in TransferNodes
    /\ par = [t \in Tasks |-> DefaultFlags]
    /\ ws = [t \in Tasks |-> FreshWs]

InitializeNext ==
    \E t \in Tasks :
        \/ CallInitialize(t)
        \/ Mkdir(t)
        \/ Stage(t)
        \/ CpWs(t)
        \/ SetParSource(t)

SpecInitialize == InitializeInit /\ [][InitializeNext]_vars

\* Every task exports from its own staged workspace into the one shared
\* output root.
ExportInit ==
    /\ CommonInit
    /\ GradQuiet
    /\ node \in InjectiveNodes
    /\ par = [t \in Tasks |-> DefaultFlags]
    /\ ws = [t \in Tasks |-> StagedWs(t)]

ExportNext ==
    \E t \in Tasks :
        \/ CallExportModel(t)
        \/ CallExportKernels(t)
        \/ CallExportResiduals(t)
        \/ CallExportTraces(t)
        \/ ExportModelCp(t)
        \/ MkdirGpfs(t)
        \/ CpOut(t)
        \/ MvOut(t)

SpecExport == ExportInit /\ [][ExportNext]_vars


TransferInit ==
    /\ GradQuiet
    /\ node \in TransferNodes
    /\ par = [t \in Tasks |-> DefaultFlags]
    /\ ws = [t \in Tasks |-> StagedWs(t)]
    /\ todo = [t \in Tasks |-> <<>>]
    /\ op = [t \in Tasks |-> None]
    /\ result = [t \in Tasks |-> None]
    /\ running = [t \in Tasks |-> {}]
    /\ exitc = [t \in Tasks |-> [b \in Bins |-> {}]]
    /\ nrun = [t \in Tasks |-> [b \in Bins |-> 0]]
    /\ argv = [t \in Tasks |-> <<>>]
    /\ out \in {<<>>, [p \in {<<"model">>} |-> "model to import"]}
    /\ outdirs = {}
    /\ writers = <<>>
    /\ ncalls = 0

TransferNext ==
    \E t \in Tasks :
        \/ CallExportModelTo(t)
        \/ CallExportKernels(t)
        \/ CallExportResiduals(t)
        \/ CallExportTraces(t)
        \/ CallImportModel(t)
        \/ CallImportTraces(t)
        \/ CallCombine(t)
        \/ ExportModelCp(t)
        \/ MkdirGpfs(t)
        \/ CpOut(t)
        \/ MvOut(t)
        \/ CpImport(t)
        \/ CombineCall(t)

SpecTransfer == TransferInit /\ [][TransferNext]_vars

\* smooth and clip are called, one after the other, on the kernel directory.
GradSpecInit ==
    /\ GradInit
    /\ CommonInit
    /\ node = [t \in Tasks |-> t - 1]
    /\ par = [t \in Tasks |-> DefaultFlags]
    /\ ws = [t \in Tasks |-> FreshWs]

SpecGrad == GradSpecInit /\ [][GradNext]_vars

\* load, loadbyproc and save are called on a table and a reference file.
CodecSpecInit ==
    /\ CodecInit
    /\ CommonInit
    /\ node = [t \in Tasks |-> t - 1]
    /\ par = [t \in Tasks |-> DefaultFlags]
    /\ ws = [t \in Tasks |-> FreshWs]

SpecCodec == CodecSpecInit /\ [][CodecNext]_vars

\* ------------------------------------------------------------ claims
Started(t) == \E b \in Bins : nrun[t][b] > 0
ExitedZero(t) == exitc[t][XMESHFEM2D] = {0} /\ exitc[t][XSPECFEM2D] = {0}

\* C1: in a call of forward() the flags are (SIMULATION_TYPE = 1,
\* SAVE_FORWARD = .true.) once any binary has been started, the solver is
\* started only after the mesher was started once and has exited, and the
\* two never run at the same time.
C1_ForwardOrder ==
    \A t \in Tasks :
        op[t] = "forward" =>
            /\ Started(t) => par[t] = [SIMULATION_TYPE |-> "1", SAVE_FORWARD |-> ".true."]
            /\ nrun[t][XSPECFEM2D] > 0 =>
                 /\ nrun[t][XMESHFEM2D] = 1
                 /\ exitc[t][XMESHFEM2D] # {}
                 /\ XMESHFEM2D \notin running[t]
            /\ Cardinality(running[t]) <= 1

C1_Witness ==
    \E t \in Tasks :
        /\ op[t] = "forward"
        /\ running[t] = {XSPECFEM2D}
        /\ exitc[t][XMESHFEM2D] # {}

\* C2: forward() and adjoint() return normally exactly when both binaries
\* exited with code zero, raise otherwise, and start no binary twice.
C2_FailureReported ==
    [][\A t \in Tasks :
          (op[t] \in {"forward", "adjoint"} /\ op'[t] = None) =>
              /\ result'[t] = "returned" <=> ExitedZero(t)'
              /\ result'[t] \in {"returned", "raised"}
              /\ \A b \in Bins : nrun'[t][b] <= 1]_vars

\* C3: in generate_data() nothing is written under the shared output root
\* before both binaries have exited with code zero.
C3_ExportAfterSuccess ==
    [][\A t \in Tasks :
          (op[t] = "generate_data" /\ todo'[t] # todo[t]
              /\ (out' # out \/ writers' # writers)) => ExitedZero(t)]_vars

\* C4: in a call of adjoint() the link SEM is absent when it is re-created,
\* and once any binary has been started the flags are (SIMULATION_TYPE = 3,
\* SAVE_FORWARD = .false.) and SEM refers to traces/adj; the solver is started
\* only after the mesher has exited.
C4_AdjointOrder ==
    \A t \in Tasks :
        op[t] = "adjoint" =>
            /\ At(t, "ln") => ws[t]["SEM"] = Absent /\ ~Started(t)
            /\ Started(t) =>
                 /\ par[t] = [SIMULATION_TYPE |-> "3", SAVE_FORWARD |-> ".false."]
                 /\ ws[t]["SEM"] = Link("traces/adj")
            /\ nrun[t][XSPECFEM2D] > 0 =>
                 /\ exitc[t][XMESHFEM2D] # {}
                 /\ XMESHFEM2D \notin running[t]

C4_Witness ==
    \E t \in Tasks :
        /\ op[t] = "adjoint"
        /\ running[t] = {XSPECFEM2D}
        /\ ws[t]["SEM"] = Link("traces/adj")

\* C5: the export_model statement of a worker with identity 0 copies the
\* workspace model file to its destination and changes nothing else; that of
\* a worker with any other identity changes neither the workspace nor the
\* shared output root.
C5_ExportModelGate ==
    [][\A t \in Tasks :
          (At(t, "export_model") /\ todo'[t] # todo[t]) =>
              /\ ws' = ws
              /\ outdirs' = outdirs
              /\ IF node[t] = 0
                 THEN /\ Head(todo[t]).b \in DOMAIN out'
                      /\ out'[Head(todo[t]).b] = ws[t][MODEL_FILE]
                      /\ \A q \in DOMAIN out : q # Head(todo[t]).b => out'[q] = out[q]
                 ELSE out' = out /\ writers' = writers]_vars

C5_Witness ==
    \E s, t \in Tasks :
        /\ node[s] = 0 /\ result[s] = "returned" /\ DOMAIN out = {<<"model_init">>}
        /\ node[t] # 0 /\ result[t] = "returned" /\ outdirs = {}
        /\ ncalls = 2

\* C6: no path under the shared output root is written by more than one
\* task, and a model destination is written by the worker 0 only.
C6_OneWriterPerPath ==
    \A p \in DOMAIN writers :
        /\ Cardinality(writers[p]) <= 1
        /\ Len(p) = 1 => \A t \in writers[p] : node[t] = 0

C6_Witness ==
    \E s, t \in Tasks :
        /\ s # t
        /\ <<"kernels", Fmt06d(node[s])>> \in DOMAIN writers
        /\ <<"kernels", Fmt06d(node[t])>> \in DOMAIN writers
        /\ <<"traces", getname(s)>> \in DOMAIN writers

\* a call of smooth or clip that transforms the file
Transforming ==
    /\ gres \in {"running", "returned"}
    /\ \/ gop = "smooth" /\ garg # 0
       \/ gop = "clip" /\ garg.num < garg.den
Archive == IF gop = "smooth" THEN NOSMOOTH ELSE NOCLIP

\* C7: while smooth or clip transforms path/tag, the content the file had
\* when the call started is at path/tag or at the archival sibling, and once
\* path/tag has been rewritten it is at the archival sibling.
C7_PreTransformKept ==
    Transforming =>
        /\ gfs0[TAG].exists
        /\ gfs[TAG] = gfs0[TAG] \/ gfs[Archive] = gfs0[TAG]
        /\ TAG \in touched => ~gfs[TAG].exists \/ gfs[Archive] = gfs0[TAG]
        /\ gpc = "idle" => gfs[Archive] = gfs0[TAG] /\ gfs[TAG].exists

C7_Witness ==
    /\ Transforming
    /\ gop = "smooth"
    /\ gpc = "idle"
    /\ gfs0[NOSMOOTH].exists
    /\ gfs[NOSMOOTH] = gfs0[TAG]
    /\ gfs[TAG] # gfs0[TAG]

\* C8: after smooth or clip has transformed a 5-column file at path/tag, the
\* file at path/tag has 5 columns.
C8_KernelKeepsFiveColumns ==
    (Transforming /\ gpc = "idle" /\ Len(gfs0[TAG].rows[1]) = 5) =>
        Len(gfs[TAG].rows[1]) = 5

\* the record a table of 5 or 6 columns holds
RecordOf(rows) ==
    [i \in 1..5 |-> [r \in 1..Len(rows) |-> float(rows[r][Len(rows[1]) - 5 + i])]]

\* C9: after smooth with span = 0 every file is as it was, nothing was
\* renamed or written, and the record returned is the one the file holds.
C9_SmoothZeroSpan ==
    (gop = "smooth" /\ garg = 0) =>
        /\ gpc = "idle"
        /\ gfs = gfs0
        /\ touched = {}
        /\ gres = "returned" => gret = RecordOf(gfs0[TAG].rows)

C9_Witness ==
    /\ gop = "smooth"
    /\ garg = 0
    /\ gres = "returned"
    /\ ~gfs[NOSMOOTH].exists
    /\ gcalls = 1

\* C10: after clip with thresh >= 1 every file is as it was, nothing was
\* renamed or written, and the record returned is the one the file holds.
C10_ClipNoThreshold ==
    (gop = "clip" /\ garg.num >= garg.den) =>
        /\ gpc = "idle"
        /\ gfs = gfs0
        /\ touched = {}
        /\ gres = "returned" => gret = RecordOf(gfs0[TAG].rows)

C10_Witness ==
    /\ gop = "clip"
    /\ garg.num > garg.den
    /\ gres = "returned"
    /\ ~gfs[NOCLIP].exists
    /\ gcalls = 1

\* C11: after clip with thresh < 1 has rewritten path/tag, every value of vs
\* lies between thresh*min and thresh*max, where min and max are the extrema
\* vs had in the file before, a value that already lay between them is as it
\* was, and the columns x, z, rho, vp are as they were.
C11_ClipClampsIntoInterval ==
    (gop = "clip" /\ garg.num < garg.den /\ gpc = "idle" /\ gres = "returned") =>
        LET before == RecordOf(gfs0[TAG].rows)
            after == RecordOf(gfs[TAG].rows)
            vs == KeyIndex("vs")
            old == Ints(before[vs])
            new == Ints(after[vs])
            lo == Times(garg, SeqMin(old))
            hi == Times(garg, SeqMax(old))
        IN  /\ \A r \in 1..Len(new) :
                 /\ lo <= new[r] /\ new[r] <= hi
                 /\ (lo <= old[r] /\ old[r] <= hi) => new[r] = old[r]
            /\ \A i \in 1..Len(Keys) : i # vs => after[i] = before[i]

\* the save type that corresponds to a table of ncol columns
KindOf(ncol) == IF ncol = 5 THEN "kernel" ELSE "model"
Whole(ncol) == [type |-> KindOf(ncol), lacking |-> {}]

\* C12: for a table of 5 or 6 columns, load returns a record, save of that
\* record with the corresponding type writes a file of as many columns as
\* the table has, and load of that file returns the record of the first load.
C12_RoundTrip ==
    LET ncol == Len(gfs0[TAG].rows[1]) IN
    ncol \in {5, 6} =>
        /\ gop = "load" => gres = "returned"
        /\ (gop = "save" /\ gcalls = 2 /\ garg = Whole(ncol)) =>
               gres = "returned" /\ Len(gfs[TAG].rows[1]) = ncol
        /\ (gop = "reload" /\ gcalls = 3 /\ garg = Whole(ncol)) =>
               gres = "returned" /\ gret = parts

\* C13: save with type 'kernel' of a record that lacks some of rho, vp, vs,
\* with a reference file of as many rows as the record has nodes, returns
\* and leaves a table of 5 columns and as many rows, in which the column of
\* a key the record has holds the values of the record and the column of a
\* key it lacks holds, row for row, the values of that key in the reference
\* file, each as '%16.10e' writes it.
C13_BackfillByPosition ==
    (gop = "save" /\ garg.type = "kernel" /\ garg.lacking # {}
        /\ Len(gfs0[MODEL_INIT].rows) = Len(parts[1])) =>
        /\ gres = "returned"
        /\ Len(gfs[TAG].rows) = Len(parts[1])
        /\ \A r \in 1..Len(gfs[TAG].rows) :
             /\ Len(gfs[TAG].rows[r]) = Len(Keys)
             /\ \A i \in 1..Len(Keys) :
                  gfs[TAG].rows[r][i] =
                      Fmt16_10e(IF Keys[i] \in garg.lacking
                                THEN RecordOf(gfs0[MODEL_INIT].rows)[i][r]
                                ELSE parts[i][r])

FormatError == "Bad SPECFEM2D model or kernel."

\* C14: load and loadbyproc return for a table of 5 or 6 columns, and the
\* fields x, z, rho, vp, vs are then its last five columns in that order
\* (columns 0..4 of 5, columns 1..5 of 6); for any other number of columns
\* they raise the format error and return nothing.
C14_FiveOrSixColumns ==
    LET rows == gfs0[TAG].rows
        ncol == Len(rows[1])
        field(i) == [r \in 1..Len(rows) |-> float(rows[r][ncol - 5 + i])]
    IN  gop \in {"load", "loadbyproc"} =>
            /\ gres = "returned" <=> ncol \in {5, 6}
            /\ ncol \notin {5, 6} => gres = FormatError /\ gret = NoParts
            /\ (gres = "returned" /\ gop = "load") =>
                   gret = [i \in 1..5 |-> field(i)]
            /\ (gres = "returned" /\ gop = "loadbyproc") =>
                   \A i \in 1..5 : Keys[i] = garg => gret = field(i)

\* C15: save with a type other than 'model' and 'kernel' raises ValueError,
\* every file is as it was, and no file was read or written by it.
C15_UnknownTypeRejected ==
    (gop = "save" /\ garg.type \notin {"model", "kernel"}) =>
        /\ gres = "ValueError"
        /\ gfs = gfs0
        /\ touched = {}

C15_Witness ==
    /\ gop = "save"
    /\ garg.type = "image"
    /\ garg.lacking = {"rho", "vp"}
    /\ gres = "ValueError"
    /\ Len(gfs0[MODEL_INIT].rows) = Len(parts[1])

\* C16: a statement of export_model, export_kernels or export_traces leaves
\* the workspace as it was and a copy it makes leaves the content of the
\* source at the destination; a statement of import_model or import_traces
\* leaves the shared root as it was and puts the content of a source that
\* exists at the destination in the workspace; when export_residuals
\* returns, the workspace has no residuals and they are at
\* residuals/<task name>.
C16_CopyOrMove ==
    [][\A t \in Tasks :
          (Len(todo[t]) > 0 /\ todo'[t] # todo[t]) =>
              LET s == Head(todo[t]) IN
              /\ op[t] \in {"export_model", "export_kernels", "export_traces"} =>
                   /\ ws' = ws
                   /\ (s.k \in {"export_model", "cp_out"} /\ out' # out) =>
                          out'[s.b] = ws'[t][s.a]
                   /\ (s.k = "cp_out" /\ result'[t] # "raised") => out' # out \/ out[s.b] = ws[t][s.a]
              /\ op[t] \in {"import_model", "import_traces"} =>
                   /\ out' = out
                   /\ s.a \in DOMAIN out => ws'[t][s.b] = out[s.a]
              /\ (op[t] = "export_residuals" /\ op'[t] = None
                      /\ result'[t] = "returned") =>
                   /\ ws[t]["residuals"] # Absent
                   /\ ws'[t]["residuals"] = Absent
                   /\ <<"residuals", getname(t)>> \in DOMAIN out'
                   /\ out'[<<"residuals", getname(t)>>] = ws[t]["residuals"]]_vars

C16_Witness ==
    \E s, t \in Tasks :
        /\ ws[t]["residuals"] = Absent
        /\ <<"residuals", getname(t)>> \in DOMAIN out
        /\ <<"traces", getname(s)>> \in DOMAIN out
        /\ ws[s]["traces/obs"] = out[<<"traces", getname(s)>>]
        /\ <<"model">> \in DOMAIN out
        /\ ws[s][MODEL_FILE] = out[<<"model">>]
        /\ result[s] = "returned"

\* C17: when a statement of an export operation copies or moves to its
\* destination, the directory of the destination exists.
C17_ParentCreatedBeforeWrite ==
    [][\A t \in Tasks :
          (Len(todo[t]) > 0 /\ todo'[t] # todo[t]
              /\ \/ Head(todo[t]).k \in {"cp_out", "mv_out"}
                 \/ Head(todo[t]).k = "export_model" /\ node[t] = 0) =>
              ParentExists(Head(todo[t]).b)]_vars

\* C18: no statement of check() touches a workspace, a process or the shared
\* root; when check() returns, NT, DT and F0 are all in PAR, and once the
\* checks of the base class have passed, check() with NT, DT and F0 in PAR
\* does not raise, whatever PATH holds.
C18_PreflightGate ==
    [][\A t \in Tasks :
          (op[t] = "check" /\ todo'[t] # todo[t]) =>
              LET s == Head(todo[t]) IN
              /\ UNCHANGED <<node, par, ws, running, exitc, nrun, argv, outVars>>
              /\ result'[t] = "returned" => {"NT", "DT", "F0"} \subseteq s.b.PAR
              /\ ({"NT", "DT", "F0"} \subseteq s.b.PAR /\ s.k # "super_check") =>
                     result'[t] # "raised"
              /\ (s.k # "super_check" /\ op'[t] = None
                      /\ ~({"NT", "DT", "F0"} \subseteq s.b.PAR)) =>
                     result'[t] = "raised"]_vars

C18_Witness ==
    \E t \in Tasks :
        /\ op[t] = "check"
        /\ At(t, "tolerate")
        /\ Cur(t).a = "SPECFEM2D_DATA"
        /\ Cur(t).b = stores({"NT", "DT", "F0"}, {})

\* C19: initialize_solver_directories on a root that holds nothing stages the
\* binaries and the input files only when bin/, DATA/, traces/obs, traces/syn,
\* traces/adj and OUTPUT_FILES/DATABASES_MPI exist, and when DATA/SOURCE_N is
\* among the input files it returns with exactly these directories made, the
\* trace and database directories empty, the input files as they were
\* provided, DATA/SOURCE a copy of DATA/SOURCE_N with f0 set to PAR.F0, and
\* nothing else in the workspace.
InitializedWs(t, F0) ==
    [p \in WsPaths |->
        CASE p \in {"bin", "DATA"} -> "dir"
          [] p \in {"traces/obs", "traces/syn", "traces/adj", MODEL_DATABASES, "."} -> "empty"
          [] p = "DATA/SOURCE" -> SourceText(getname(t), F0)
          [] p \in DOMAIN SolverFiles -> SolverFiles[p]
          [] OTHER -> Absent]

C19_FreshRootLayout ==
    [][\A t \in Tasks :
          (op[t] = "initialize_solver_directories" /\ todo'[t] # todo[t]) =>
              LET s == Head(todo[t]) IN
              /\ s.k = "stage" => \A d \in Directories : ws[t][d] # Absent
              /\ s.k = "mkdir" =>
                    \A p \in WsPaths :
                        ws'[t][p] = IF p = s.b THEN "empty" ELSE ws[t][p]
              /\ (s.k = "setpar_source" /\ ws[t][SourceOf(getname(t))] # Absent) =>
                    /\ result'[t] = "returned"
                    /\ ws'[t] = InitializedWs(t, s.a)
              /\ result'[t] = "returned" => ws[t][SourceOf(getname(t))] # Absent
              /\ UNCHANGED <<node, par, running, exitc, nrun, argv, outVars>>]_vars

C19_Witness ==
    \E t \in Tasks :
        /\ result[t] = "returned"
        /\ ws[t] = InitializedWs(t, "8.0")
        /\ ws[t][SourceOf(getname(t))] = SourceText(getname(t), TemplateF0)

\* C20: combine(path) on a directory of the shared output root changes no file
\* and no directory and returns after starting exactly one process, the
\* binary bin/xsmooth_sem of the task's own workspace, with the number of
\* entries of path and path as its arguments; the entries being those the
\* workers' export_kernels wrote under their distinct identities, a
\* directory filled by N workers gives the count N.
Exported == {s \in Tasks : <<"kernels", PadLeft(Decimal(node[s]), 6)>> \in DOMAIN out}

C20_CombineInvocation ==
    [][\A t \in Tasks :
          (op[t] = "combine" /\ todo'[t] # todo[t]) =>
              /\ UNCHANGED <<node, par, ws, running, exitc, nrun, outVars>>
              /\ Head(todo[t]).b \in outdirs => result'[t] = "returned"
              /\ result'[t] = "returned" =>
                    argv'[t] = << <<getname(t) \o "/bin/xsmooth_sem",
                                   Decimal(Cardinality(Exported)),
                                   <<"kernels">>>> >>]_vars

C20_Witness ==
    \E t \in Tasks :
        /\ result[t] = "returned"
        /\ Exported = Tasks
        /\ argv[t] = << <<getname(t) \o "/bin/xsmooth_sem", Decimal(NTasks), <<"kernels">>>> >>

====
